---- MODULE Spec2Model ----
(***************************************************************************)
(* Model of the resume-to-job matching core of the AIProject repository:   *)
(* ResumeParser.parseResume, ResumeParser.scoreResume and                  *)
(* ResumeParser.analyzeSuitability (ResumeParser/src/utils/resumeParser.ts)*)
(* as called by App.handleResumeUpload.                                    *)
(*                                                                         *)
(* Text is modelled as TLA+ strings over the characters that occur in the  *)
(* inputs below: ASCII letters, digits, space, '.', ',', '+', '/', ':'.    *)
(* A score is kept in tenths (52 is 5.2).  The sum of scoreResume is kept  *)
(* exactly up to Math.round; the IEEE-754 sum of the code rounds the same   *)
(* way except where the exact sum is a tie (IsRoundingTie), which needs a  *)
(* number of required skills that is a multiple of 4; ScoreOutcomes gives  *)
(* both results there.  A method call ends in a returned value or in a     *)
(* thrown error, which is kept as a result of kind "throw".                *)
(*                                                                         *)
(* The module also models the components around the core: the              *)
(* job-requirement form (unnamed/part_002), App and ResumeUploader of the  *)
(* resume app, and the X-ray panel (unnamed/part_001).  Spec and SpecScore *)
(* are the behaviours of the core, SpecForm of the form alone, SpecApp and *)
(* SpecAppFair of the resume app, SpecXray of the X-ray panel.             *)
(***************************************************************************)
EXTENDS Integers, Sequences, FiniteSets, TLC

(***************************************************************************)
(* Strings                                                                 *)
(***************************************************************************)
Ch(s, i) == SubSeq(s, i, i)

UpperLetters == "ABCDEFGHIJKLMNOPQRSTUVWXYZ"
LowerLetters == "abcdefghijklmnopqrstuvwxyz"
Digits == "0123456789"

\* the index of character c in string s, 0 when absent
CharIndex(s, c) ==
    IF \E i \in 1..Len(s) : Ch(s, i) = c
    THEN CHOOSE i \in 1..Len(s) : Ch(s, i) = c
    ELSE 0

LowerOf == [c \in {Ch(UpperLetters, i) : i \in 1..Len(UpperLetters)} |->
               Ch(LowerLetters, CharIndex(UpperLetters, c))]

ToLowerChar(c) == IF c \in DOMAIN LowerOf THEN LowerOf[c] ELSE c

ToLowerCase_Keep(s) == s

RECURSIVE ToLowerCase(_)
\* String.prototype.toLowerCase
ToLowerCase(s) ==
    IF Len(s) = 0 THEN ""
    ELSE IF Len(s) = 1 THEN ToLowerChar(s)
    ELSE LET h == Len(s) \div 2
         IN ToLowerCase(SubSeq(s, 1, h)) \o ToLowerCase(SubSeq(s, h + 1, Len(s)))

\* sub occurs in s starting at index i
OccursAt(s, sub, i) ==
    /\ i >= 1
    /\ i + Len(sub) - 1 <= Len(s)
    /\ SubSeq(s, i, i + Len(sub) - 1) = sub

\* String.prototype.includes
Includes(s, sub) == \E i \in 1..(Len(s) + 1) : OccursAt(s, sub, i)

\* Array.prototype.includes on an array of strings
ArrayIncludes(arr, x) == \E i \in 1..Len(arr) : arr[i] = x

RECURSIVE Join(_, _)
\* Array.prototype.join
Join(arr, sep) ==
    IF arr = <<>> THEN ""
    ELSE IF Len(arr) = 1 THEN arr[1]
    ELSE arr[1] \o sep \o Join(Tail(arr), sep)

DigitChars == {Ch(Digits, i) : i \in 1..Len(Digits)}
IsDigit(c) == c \in DigitChars
\* \s of the regular expressions, over the model's characters
SpaceChars == {" ", "\n", "\t"}
IsSpace(c) == c \in SpaceChars

\* the members of a set of integers in increasing order
SortedSeq(S) ==
    [k \in 1..Cardinality(S) |-> CHOOSE i \in S : Cardinality({j \in S : j < i}) = k - 1]

\* the maximal runs of characters of s that are not in seps, left to right
Runs(s, seps) ==
    LET starts == {i \in 1..Len(s) :
                      Ch(s, i) \notin seps /\ (i = 1 \/ Ch(s, i - 1) \in seps)}
        endOf(i) == CHOOSE j \in i..Len(s) :
                        /\ \A k \in i..j : Ch(s, k) \notin seps
                        /\ (j = Len(s) \/ Ch(s, j + 1) \in seps)
        order == SortedSeq(starts)
    IN [k \in 1..Len(order) |-> SubSeq(s, order[k], endOf(order[k]))]

SplitSeparators == SpaceChars \cup {",", "."}

\* content.split(/[\s,\.]+/): a leading or trailing separator run leaves an
\* empty first or last word, and "" splits into [""]
SplitWords(s) ==
    (IF s = "" \/ Ch(s, 1) \in SplitSeparators THEN <<"">> ELSE <<>>)
        \o Runs(s, SplitSeparators)
        \o (IF s # "" /\ Ch(s, Len(s)) \in SplitSeparators THEN <<"">> ELSE <<>>)

SetAdd_Always(arr, x) == Append(arr, x)

\* Set.prototype.add on a Set kept in insertion order (Array.from order)
SetAdd(arr, x) == IF ArrayIncludes(arr, x) THEN arr ELSE Append(arr, x)

RECURSIVE SetAddAll(_, _)
SetAddAll(arr, xs) ==
    IF xs = <<>> THEN arr ELSE SetAddAll(SetAdd(arr, Head(xs)), Tail(xs))

(***************************************************************************)
(* The text analyzer (the compromise library, called as nlp(...)).  The    *)
(* library is not part of the repository; the model keeps the operations   *)
(* parseResume uses: sentences, whitespace-delimited terms with their      *)
(* punctuation stripped, and a tag lookup.  A term is a #Value when it is  *)
(* a run of digits or a number word; the tags come from the lexicon below, *)
(* which stands for the library's own.  Whatever the lexicon tags, the     *)
(* proper-noun step only adds terms of the dictionary, and the cue-word    *)
(* step only adds cue words.                                                *)
(***************************************************************************)
CueWords ==
    {"cloud", "stack", "framework", "language", "database", "platform",
     "system", "api", "service"}

EducationWords == {"degree", "bachelor", "master", "phd", "diploma"}

NlpLexicon ==
    [Noun         |-> CueWords \cup {"developer", "experience", "years"},
     ProperNoun   |-> {"java", "aws", "linux", "react"},
     Person       |-> {},
     Place        |-> {"java"},
     Organization |-> {"aws"},
     Value        |-> {"two", "five", "ten"}]

HasTag(word, tag) == word \in NlpLexicon[tag]

IsSentenceEnd(c) == c \in {".", "!", "?"}
TermPunctuation == {".", ",", "!", "?", ":"}

RECURSIVE TrimLeft(_, _)
TrimLeft(s, drop) ==
    IF s # "" /\ Ch(s, 1) \in drop THEN TrimLeft(SubSeq(s, 2, Len(s)), drop) ELSE s

RECURSIVE TrimRight(_, _)
TrimRight(s, drop) ==
    IF s # "" /\ Ch(s, Len(s)) \in drop
    THEN TrimRight(SubSeq(s, 1, Len(s) - 1), drop)
    ELSE s

Trim(s) == TrimRight(TrimLeft(s, SpaceChars), SpaceChars)

\* the normal form of a term: the token without its leading and trailing punctuation
TermNormal(tok) == TrimRight(TrimLeft(tok, TermPunctuation), TermPunctuation)

\* doc.sentences(): the text is cut after a '.', '!' or '?' that is followed by
\* white space or ends the text; .out('array') gives each sentence's trimmed text
Sentences(text) ==
    LET cuts == {i \in 1..Len(text) :
                    \/ i = Len(text)
                    \/ IsSentenceEnd(Ch(text, i)) /\ IsSpace(Ch(text, i + 1))}
        order == SortedSeq(cuts)
        from(k) == IF k = 1 THEN 1 ELSE order[k - 1] + 1
        pieces == [k \in 1..Len(order) |-> Trim(SubSeq(text, from(k), order[k]))]
    IN SelectSeq(pieces, LAMBDA p : p # "")

\* the terms of a text, in order, each in its normal form
Terms(text) ==
    LET tokens == Runs(text, SpaceChars)
        normal == [k \in 1..Len(tokens) |-> TermNormal(tokens[k])]
    IN SelectSeq(normal, LAMBDA t : t # "")

\* #Value: a number in digits or in words
IsValue(word) ==
    \/ word # "" /\ \A i \in 1..Len(word) : IsDigit(Ch(word, i))
    \/ HasTag(word, "Value")

(***************************************************************************)
(* ResumeParser.parseResume                                                *)
(***************************************************************************)
\* private commonTechTerms = new Set([...])
DefaultTechTerms ==
    {"javascript", "typescript", "python", "java", "c++", "ruby", "php",
     "react", "angular", "vue", "node", "express", "django", "flask",
     "mongodb", "postgresql", "mysql", "redis", "aws", "azure", "gcp",
     "docker", "kubernetes", "git", "ci/cd", "agile", "scrum",
     "html", "css", "sass", "less", "webpack", "babel", "rest", "graphql",
     "linux", "windows", "macos", "ios", "android", "swift", "kotlin"}

DictionaryMatches_NoFilter(techTerms, words) == words

\* words.forEach(word => { if (this.commonTechTerms.has(word)) skills.add(word) })
DictionaryMatches(techTerms, words) == SelectSeq(words, LAMBDA w : w \in techTerms)

\* doc.match('#Noun').match('(cloud|stack|...|service)'), each term's text
CueNounTerms(text) ==
    SelectSeq(Terms(text), LAMBDA t : HasTag(t, "Noun") /\ t \in CueWords)

\* doc.match('#ProperNoun').not('#Person').not('#Place').not('#Organization'),
\* kept when the dictionary has the term's text
ProperNounMatches(techTerms, text) ==
    SelectSeq(Terms(text),
              LAMBDA t : /\ HasTag(t, "ProperNoun")
                         /\ ~HasTag(t, "Person")
                         /\ ~HasTag(t, "Place")
                         /\ ~HasTag(t, "Organization")
                         /\ t \in techTerms)

IsExperienceSentence_AnyValue(sentence) ==
    LET ts == Terms(sentence)
    IN /\ \E i \in 1..Len(ts) : IsValue(ts[i])
       /\ \E i \in 1..Len(ts) : ts[i] = "experience"

\* .if('#Value years').if('experience')
IsExperienceSentence(sentence) ==
    LET ts == Terms(sentence)
    IN /\ \E i \in 1..(Len(ts) - 1) : IsValue(ts[i]) /\ ts[i + 1] = "years"
       /\ \E i \in 1..Len(ts) : ts[i] = "experience"

IsEducationSentence_NotExperience(sentence) ==
    LET ts == Terms(sentence)
    IN /\ \E i \in 1..Len(ts) : ts[i] \in EducationWords
       /\ ~IsExperienceSentence(sentence)

\* .if('(degree|bachelor|master|phd|diploma)')
IsEducationSentence(sentence) ==
    LET ts == Terms(sentence)
    IN \E i \in 1..Len(ts) : ts[i] \in EducationWords

parseResume(techTerms, content) ==
    LET text == ToLowerCase(content)
        words == SplitWords(text)
        skills == SetAddAll(SetAddAll(SetAddAll(<<>>,
                      DictionaryMatches(techTerms, words)),
                      CueNounTerms(text)),
                      ProperNounMatches(techTerms, text))
    IN [skills     |-> skills,
        experience |-> SelectSeq(Sentences(text), IsExperienceSentence),
        education  |-> SelectSeq(Sentences(text), IsEducationSentence)]

(***************************************************************************)
(* new RegExp(source, 'gi') and String.prototype.match, for sources over   *)
(* the model's characters: '+' is the one-or-more quantifier, '.' matches  *)
(* any character but a line terminator, every other character is literal.  *)
(***************************************************************************)
\* the constructor throws SyntaxError ("Nothing to repeat") for a '+' that
\* follows no atom
RegexValid(src) ==
    \A i \in 1..Len(src) :
        Ch(src, i) = "+" => (i > 1 /\ Ch(src, i - 1) # "+")

RECURSIVE RegexItems(_)
\* the pattern as a sequence of atoms, each with or without the quantifier
RegexItems(src) ==
    IF src = "" THEN <<>>
    ELSE IF Len(src) >= 2 /\ Ch(src, 2) = "+"
         THEN <<[c |-> Ch(src, 1), plus |-> TRUE]>> \o RegexItems(SubSeq(src, 3, Len(src)))
         ELSE <<[c |-> Ch(src, 1), plus |-> FALSE]>> \o RegexItems(SubSeq(src, 2, Len(src)))

\* flag i: letters compare without case
AtomMatches(a, c) ==
    IF a = "." THEN c \notin {"\n", "\r"}
    ELSE ToLowerChar(a) = ToLowerChar(c)

\* how many characters from index i on match atom a
RunLength(a, s, i) ==
    LET stop == {j \in i..(Len(s) + 1) : j = Len(s) + 1 \/ ~AtomMatches(a, Ch(s, j))}
    IN (CHOOSE j \in stop : \A k \in stop : j <= k) - i

RECURSIVE MatchEnd(_, _, _, _)
RECURSIVE PlusTry(_, _, _, _, _)
\* the index after the match of items[k..] that starts at i, or 0 when there
\* is none; a quantified atom takes the longest run first (greedy)
MatchEnd(items, k, s, i) ==
    IF k > Len(items) THEN i
    ELSE IF items[k].plus
         THEN PlusTry(items, k, s, i, RunLength(items[k].c, s, i))
         ELSE IF i <= Len(s) /\ AtomMatches(items[k].c, Ch(s, i))
              THEN MatchEnd(items, k + 1, s, i + 1)
              ELSE 0

PlusTry(items, k, s, i, j) ==
    IF j < 1 THEN 0
    ELSE LET e == MatchEnd(items, k + 1, s, i + j)
         IN IF e # 0 THEN e ELSE PlusTry(items, k, s, i, j - 1)

\* the start of the leftmost match at or after index from, or 0 when there is none
NextMatch(items, s, from) ==
    LET starts == {p \in from..(Len(s) + 1) : MatchEnd(items, 1, s, p) # 0}
    IN IF starts = {} THEN 0 ELSE CHOOSE p \in starts : \A k \in starts : p <= k

\* where the search for the next match goes on after the match that starts at p
\* (flag g): at its end, or one character on when the match is empty
ResumeAfter(items, s, p) ==
    LET e == MatchEnd(items, 1, s, p) IN IF e = p THEN p + 1 ELSE e

\* s.match(regex) holds two matches or more
HasTwoMatches(items, s) ==
    LET first == NextMatch(items, s, 1)
    IN first # 0 /\ NextMatch(items, s, ResumeAfter(items, s, first)) # 0

(***************************************************************************)
(* ResumeParser.scoreResume                                                *)
(***************************************************************************)
Min(a, b) == IF a <= b THEN a ELSE b
Max(a, b) == IF a >= b THEN a ELSE b

Num(tenths) == [kind |-> "number", tenths |-> tenths]
NaN == [kind |-> "NaN"]
Throw(error) == [kind |-> "throw", error |-> error]

\* matchedSkills: in the extracted skills or a substring of the content
MatchedForScore(skills, normalizedContent, requiredSkills) ==
    SelectSeq(requiredSkills,
              LAMBDA skill : \/ ArrayIncludes(skills, ToLowerCase(skill))
                             \/ Includes(normalizedContent, ToLowerCase(skill)))

HasRepetition_AtLeastOnce(normalizedContent, skill) ==
    NextMatch(RegexItems(ToLowerCase(skill)), normalizedContent, 1) # 0

\* (normalizedContent.match(new RegExp(skill.toLowerCase(), 'gi')) || []).length > 1
HasRepetition(normalizedContent, skill) ==
    HasTwoMatches(RegexItems(ToLowerCase(skill)), normalizedContent)

\* normalizedContent.includes(`experience in ${skill.toLowerCase()}`)
HasExplicitExperience(normalizedContent, skill) ==
    Includes(normalizedContent, "experience in " \o ToLowerCase(skill))

\* score = (m / n) * 7 + 0.2 * r + 0.3 * e for n >= 1, then
\* Math.round(score * 10), which rounds a half up: the final score in tenths
\* before the clamp
RoundedTenths_CountMissing(n, m, r, e) ==
    (2 * (70 * (n - m) + (2 * r + 3 * e) * n) + n) \div (2 * n)

RoundedTenths(n, m, r, e) ==
    (2 * (70 * m + (2 * r + 3 * e) * n) + n) \div (2 * n)

\* Math.min(Math.round(score * 10) / 10, 10), in tenths
FinalScore(n, m, r, e) == Min(RoundedTenths(n, m, r, e), 100)

\* score * 10 lies exactly half way between two integers
IsRoundingTie(n, m, r, e) ==
    (140 * m) % n = 0 /\ ((140 * m) \div n) % 2 = 1

\* The code adds IEEE-754 doubles.  The sum differs from the exact one by far
\* less than the distance to the next half unless the exact sum is a tie;
\* on a tie the double may lie just below the half and round down.
ScoreOutcomes(n, m, r, e) ==
    IF IsRoundingTie(n, m, r, e)
    THEN {FinalScore(n, m, r, e), Min(RoundedTenths(n, m, r, e) - 1, 100)}
    ELSE {FinalScore(n, m, r, e)}

scoreResume(techTerms, content, requiredSkills) ==
    LET skills == parseResume(techTerms, content).skills
        normalizedContent == ToLowerCase(content)
        n == Len(requiredSkills)
        m == Len(MatchedForScore(skills, normalizedContent, requiredSkills))
        r == Len(SelectSeq(requiredSkills,
                           LAMBDA skill : HasRepetition(normalizedContent, skill)))
        e == Len(SelectSeq(requiredSkills,
                           LAMBDA skill : HasExplicitExperience(normalizedContent, skill)))
    IN IF \E i \in 1..n : ~RegexValid(ToLowerCase(requiredSkills[i]))
       THEN Throw("SyntaxError")
       ELSE IF n = 0 THEN NaN
       ELSE Num(FinalScore(n, m, r, e))

(***************************************************************************)
(* ResumeParser.analyzeSuitability                                         *)
(***************************************************************************)
\* exp.match(/\d+/)?.[0] || '0'
FirstDigitRun(s) ==
    LET digitAt == {i \in 1..Len(s) : IsDigit(Ch(s, i))}
    IN IF digitAt = {} THEN "0"
       ELSE LET first == CHOOSE i \in digitAt : \A k \in digitAt : i <= k
                last == CHOOSE j \in first..Len(s) :
                            /\ \A k \in first..j : k \in digitAt
                            /\ (j + 1) \notin digitAt
            IN SubSeq(s, first, last)

RECURSIVE ParseInt(_)
\* parseInt of a run of decimal digits
ParseInt(ds) ==
    IF ds = "" THEN 0
    ELSE 10 * ParseInt(SubSeq(ds, 1, Len(ds) - 1)) + (CharIndex(Digits, Ch(ds, Len(ds))) - 1)

RECURSIVE NumberToString(_)
\* a non-negative integer in a template literal
NumberToString(n) ==
    IF n < 10 THEN Ch(Digits, n + 1)
    ELSE NumberToString(n \div 10) \o Ch(Digits, (n % 10) + 1)

RECURSIVE YearsOfExperience(_, _)
\* experience.reduce((max, exp) => Math.max(max, parseInt(...)), 0)
YearsOfExperience(experience, max) ==
    IF experience = <<>> THEN max
    ELSE YearsOfExperience(Tail(experience),
                           Max(max, ParseInt(FirstDigitRun(Head(experience)))))

HighlyRecommended ==
    "Highly recommended for the position. The candidate shows strong alignment with job requirements and brings valuable experience."
ConsiderForInterview ==
    "Consider for interview. While there are some gaps, the candidate shows potential and could be a good fit with some training."
NotRecommended ==
    "Not recommended for this position. The candidate's profile doesn't align well with the job requirements."

\* score >= 7, else score >= 5, else; every comparison with NaN is false
Recommendation(score) ==
    IF score.kind = "number" /\ score.tenths >= 70 THEN HighlyRecommended
    ELSE IF score.kind = "number" /\ score.tenths >= 50 THEN ConsiderForInterview
    ELSE NotRecommended

SkillStrengths_All(skills, requiredSkills) ==
    IF Len(requiredSkills) > 0
    THEN <<"Strong match in key skills: " \o Join(requiredSkills, ", ")>>
    ELSE <<>>

SkillStrengths(skills, requiredSkills) ==
    LET matchedSkills ==
            SelectSeq(requiredSkills, LAMBDA skill : ArrayIncludes(skills, ToLowerCase(skill)))
    IN IF Len(matchedSkills) > 0
       THEN <<"Strong match in key skills: " \o Join(matchedSkills, ", ")>>
       ELSE <<>>

SkillGaps(skills, requiredSkills) ==
    LET missingSkills ==
            SelectSeq(requiredSkills, LAMBDA skill : ~ArrayIncludes(skills, ToLowerCase(skill)))
    IN IF Len(missingSkills) > 0
       THEN <<"Missing required skills: " \o Join(missingSkills, ", ")>>
       ELSE <<>>

ExperienceStrengths(yearsExp) ==
    IF yearsExp >= 5
    THEN <<"Strong industry experience with " \o NumberToString(yearsExp) \o " years">>
    ELSE IF yearsExp >= 2
    THEN <<"Relevant experience with " \o NumberToString(yearsExp) \o " years in the field">>
    ELSE <<>>

ExperienceGaps(yearsExp) ==
    IF yearsExp >= 2 THEN <<>> ELSE <<"Limited professional experience">>

EducationStrengths(education) ==
    IF Len(education) > 0
    THEN IF \E i \in 1..Len(education) :
                \/ Includes(ToLowerCase(education[i]), "master")
                \/ Includes(ToLowerCase(education[i]), "phd")
         THEN <<"Advanced academic qualifications">>
         ELSE IF \E i \in 1..Len(education) : Includes(ToLowerCase(education[i]), "bachelor")
         THEN <<"Relevant academic background">>
         ELSE <<>>
    ELSE <<>>

EducationGaps(education) ==
    IF Len(education) > 0 THEN <<>> ELSE <<"No formal education details found">>

analyzeSuitability(techTerms, content, requiredSkills, jobDescription) ==
    LET profile == parseResume(techTerms, content)
        score == scoreResume(techTerms, content, requiredSkills)
        yearsExp == YearsOfExperience(profile.experience, 0)
    IN IF score.kind = "throw" THEN score
       ELSE [kind           |-> "verdict",
             strengths      |-> SkillStrengths(profile.skills, requiredSkills)
                                \o ExperienceStrengths(yearsExp)
                                \o EducationStrengths(profile.education),
             gaps           |-> SkillGaps(profile.skills, requiredSkills)
                                \o ExperienceGaps(yearsExp)
                                \o EducationGaps(profile.education),
             recommendation |-> Recommendation(score)]

(***************************************************************************)
(* Inputs                                                                  *)
(***************************************************************************)
MaxChunks == 2
MaxSkills == 2
MaxRepeatedSkills == 7
MaxCount == 7

\* resume texts are built from these pieces
Chunks == {"java", "Script", " ", "experience in "}

RECURSIVE ChunkStrings(_)
ChunkStrings(k) ==
    IF k = 0 THEN {""}
    ELSE LET shorter == ChunkStrings(k - 1)
         IN shorter \cup {p \o c : p \in shorter, c \in Chunks}

ScenarioContent ==
    "Experienced JavaScript and React developer. 5 years experience in javascript. Experience in javascript experience in javascript."
ScenarioSkills == <<"javascript", "react", "docker">>

\* sentences that mention experience or education in the ways the tiers of
\* analyzeSuitability tell apart
MentionSentences ==
    {"5 years experience in Java.",
     "In 2 teams, 10 years of Experience.",
     "experience with 12 projects.",
     "five years experience.",
     "Master degree, 7 years experience.",
     "Bachelor of science.",
     "Diploma in java."}

\* resumes of one or two such sentences, and the same word in two letter cases
MentionContents ==
    MentionSentences
        \cup {a \o " " \o b : a \in MentionSentences, b \in MentionSentences}
        \cup {"JAVA", "JAVA java"}

\* a skill named twice, without and with the phrase "experience in"
RepeatContents == {"java java", "experience in java java"}

Contents ==
    ChunkStrings(MaxChunks) \cup {ScenarioContent} \cup MentionContents
        \cup RepeatContents

SkillPool == {"java", "c++", "."}
\* one skill required many times over: the sum of the terms passes 10
RepeatedSkills == [i \in 1..MaxRepeatedSkills |-> "java"]

\* lists that differ from others in letter case only, or repeat a skill in
\* another letter case
CasedSkillLists ==
    {<<"JAVA">>, <<"java", "Java">>, <<"React", "java">>, <<"react", "java">>}

SkillLists ==
    UNION {[1..k -> SkillPool] : k \in 0..MaxSkills}
        \cup {ScenarioSkills, RepeatedSkills}
        \cup CasedSkillLists

JobDescriptions == {"backend developer"}

(***************************************************************************)
(* State: one ResumeParser instance and its caller                         *)
(***************************************************************************)
VARIABLES
    commonTechTerms,  \* the instance's dictionary
    pc,               \* "idle": no call yet or the last one was consumed; "returned"
    op,               \* the method last called
    content,          \* its arguments
    requiredSkills,   \* the caller's list, as the call left it
    result,           \* what the call returned or threw
    previous,         \* what the same call returned the time before, if repeated
    counts,           \* n, m, r, e handed to the score formula
    scoreOut          \* the score the formula gave for counts

\* the resume app (App.tsx) with its two components, and the X-ray panel
VARIABLES
    form,             \* JobRequirements: title, skill, skills, description, status
    saveTimers,       \* JobRequirements: the pending setTimeout callbacks of handleSubmit
    jobRequirements,  \* App: the saved requirement, or Null
    resumes,          \* App: the Resume list
    invoked,          \* the ResumeParser methods the last delivered upload called
    uploader,         \* ResumeUploader: uploadStatus, errorMessage
    fileReads,        \* ResumeUploader: the FileReader reads in flight
    xray,             \* X-ray panel: selectedFile, preview, isAnalyzing, analysis, error
    xrayTasks         \* X-ray panel: the pending validations, reads and delays

parserVars == <<commonTechTerms, pc, op, content, requiredSkills, result, previous,
                counts, scoreOut>>
appVars == <<form, saveTimers, jobRequirements, resumes, invoked, uploader, fileReads>>
xrayVars == <<xray, xrayTasks>>

vars == <<parserVars, appVars, xrayVars>>

\* JavaScript's null
Null == [kind |-> "null"]

\* JobRequirements: the useState initial values
FormInitial ==
    [title |-> "", skill |-> "", skills |-> <<>>, description |-> "",
     status |-> "incomplete"]

\* ResumeUploader: the useState initial values
UploaderInitial == [uploadStatus |-> "idle", errorMessage |-> ""]

\* X-ray panel: the useState initial values
XrayInitial ==
    [selectedFile |-> Null, preview |-> Null, isAnalyzing |-> FALSE,
     analysis |-> Null, error |-> Null]

\* the components as first rendered
AppInit ==
    /\ form = FormInitial
    /\ saveTimers = <<>>
    /\ jobRequirements = Null
    /\ resumes = <<>>
    /\ invoked = <<>>
    /\ uploader = UploaderInitial
    /\ fileReads = <<>>

XrayInit ==
    /\ xray = XrayInitial
    /\ xrayTasks = <<>>

NoResult == [kind |-> "none"]
NoCounts == [n |-> 1, m |-> 0, r |-> 0, e |-> 0]

Profile(p) ==
    [kind |-> "profile", skills |-> p.skills, experience |-> p.experience,
     education |-> p.education]

TechTermsAfterCall_AddsWords(techTerms, text) ==
    LET words == SplitWords(ToLowerCase(text))
    IN techTerms \cup {w \in {words[i] : i \in 1..Len(words)} : w # ""}

\* what a method leaves in this.commonTechTerms: the methods only call .has
TechTermsAfterCall(techTerms, text) == techTerms

RequiredSkillsAfterCall_Shifted(skills) ==
    IF skills = <<>> THEN skills ELSE Tail(skills)

\* what a method leaves in the requiredSkills array it was passed: the methods
\* only call .filter, .forEach and .length on it
RequiredSkillsAfterCall(skills) == skills

\* the value of a call of method o
CallResult(techTerms, o, c, skills) ==
    CASE o = "parseResume"        -> Profile(parseResume(techTerms, c))
      [] o = "scoreResume"        -> scoreResume(techTerms, c, skills)
      [] o = "analyzeSuitability" ->
             analyzeSuitability(techTerms, c, skills, "backend developer")

Init ==
    /\ commonTechTerms = DefaultTechTerms
    /\ pc = "idle"
    /\ op = "none"
    /\ content = ""
    /\ requiredSkills = <<>>
    /\ result = NoResult
    /\ previous = NoResult
    /\ counts = NoCounts
    /\ scoreOut = NoResult
    /\ AppInit
    /\ XrayInit

ParseResumeCall ==
    /\ pc = "idle"
    /\ \E c \in Contents :
        /\ op' = "parseResume"
        /\ content' = c
        /\ requiredSkills' = <<>>
        /\ result' = Profile(parseResume(commonTechTerms, c))
        /\ commonTechTerms' = TechTermsAfterCall(commonTechTerms, c)
    /\ pc' = "returned"
    /\ previous' = NoResult
    /\ UNCHANGED <<counts, scoreOut, appVars, xrayVars>>

ScoreResumeCall ==
    /\ pc = "idle"
    /\ \E c \in Contents, skills \in SkillLists :
        /\ op' = "scoreResume"
        /\ content' = c
        /\ requiredSkills' = RequiredSkillsAfterCall(skills)
        /\ result' = scoreResume(commonTechTerms, c, skills)
        /\ commonTechTerms' = TechTermsAfterCall(commonTechTerms, c)
    /\ pc' = "returned"
    /\ previous' = NoResult
    /\ UNCHANGED <<counts, scoreOut, appVars, xrayVars>>

AnalyzeSuitabilityCall ==
    /\ pc = "idle"
    /\ \E c \in Contents, skills \in SkillLists, d \in JobDescriptions :
        /\ op' = "analyzeSuitability"
        /\ content' = c
        /\ requiredSkills' = RequiredSkillsAfterCall(skills)
        /\ result' = analyzeSuitability(commonTechTerms, c, skills, d)
        /\ commonTechTerms' = TechTermsAfterCall(commonTechTerms, c)
    /\ pc' = "returned"
    /\ previous' = NoResult
    /\ UNCHANGED <<counts, scoreOut, appVars, xrayVars>>

\* the caller makes the same call once more, on the same instance
RepeatCall ==
    /\ pc = "returned"
    /\ previous = NoResult
    /\ previous' = result
    /\ result' = CallResult(commonTechTerms, op, content, requiredSkills)
    /\ commonTechTerms' = TechTermsAfterCall(commonTechTerms, content)
    /\ requiredSkills' = RequiredSkillsAfterCall(requiredSkills)
    /\ UNCHANGED <<pc, op, content, counts, scoreOut, appVars, xrayVars>>

\* the caller is done with the result
Return ==
    /\ pc = "returned"
    /\ pc' = "idle"
    /\ op' = "none"
    /\ content' = ""
    /\ requiredSkills' = <<>>
    /\ result' = NoResult
    /\ previous' = NoResult
    /\ UNCHANGED <<commonTechTerms, counts, scoreOut, appVars, xrayVars>>

Next ==
    \/ ParseResumeCall
    \/ ScoreResumeCall
    \/ AnalyzeSuitabilityCall
    \/ RepeatCall
    \/ Return

Spec == Init /\ [][Next]_vars

(***************************************************************************)
(* The score formula on its own: the counts n (required), m (matched),     *)
(* r (repeated) and e (explicit experience) are drawn, and the arithmetic  *)
(* of scoreResume is applied to them.                                      *)
(***************************************************************************)
CountTuples ==
    {[n |-> n, m |-> m, r |-> r, e |-> e] :
        n \in 1..MaxCount, m \in 0..MaxCount, r \in 0..MaxCount, e \in 0..MaxCount}

InitScore ==
    /\ commonTechTerms = DefaultTechTerms
    /\ pc = "idle"
    /\ op = "none"
    /\ content = ""
    /\ requiredSkills = <<>>
    /\ result = NoResult
    /\ previous = NoResult
    /\ counts \in {c \in CountTuples : c.m <= c.n /\ c.r <= c.n /\ c.e <= c.n}
    /\ scoreOut = NoResult
    /\ AppInit
    /\ XrayInit

ScoreFromCounts ==
    /\ scoreOut = NoResult
    /\ \E t \in ScoreOutcomes(counts.n, counts.m, counts.r, counts.e) :
        scoreOut' = Num(t)
    /\ UNCHANGED <<commonTechTerms, pc, op, content, requiredSkills, result,
                   previous, counts, appVars, xrayVars>>

NextScore == ScoreFromCounts

SpecScore == InitScore /\ [][NextScore]_vars

(***************************************************************************)
(* The resume app: JobRequirements (the form), App and ResumeUploader.     *)
(* A handler runs to its end before the next event is taken, and the       *)
(* components are rendered again before the next event, so a handler sees  *)
(* the state of the last render.  A callback that was created earlier (a   *)
(* timer of handleSubmit, the onload of a FileReader) keeps the values of  *)
(* the render in which it was created.                                     *)
(***************************************************************************)
MaxFormSkills == 2
MaxResumes == 2
MaxPending == 2

\* what the user types and uploads
TitleInputs == {"Developer"}
SkillInputs == {" ", " java ", "c++"}
DescriptionInputs == {"backend developer"}
ResumeTexts == {"java"}

\* a file of the file dialog, with the text FileReader.readAsText gives for it
ResumeFiles == {[kind |-> "file", text |-> t] : t \in ResumeTexts}

\* no file was chosen in the file dialog
NoFile == [kind |-> "none"]

\* Array.prototype.filter((_, i) => i !== index), index counted from 1
RemoveAt(list, index) ==
    [k \in 1..(Len(list) - 1) |-> IF k < index THEN list[k] ELSE list[k + 1]]

\* onChange of the title input
SetTitle ==
    /\ \E t \in TitleInputs : form' = [form EXCEPT !.title = t]
    /\ UNCHANGED <<saveTimers, jobRequirements, resumes, invoked, uploader, fileReads,
                   parserVars, xrayVars>>

\* onChange of the skill input
SetSkill ==
    /\ \E s \in SkillInputs : form' = [form EXCEPT !.skill = s]
    /\ UNCHANGED <<saveTimers, jobRequirements, resumes, invoked, uploader, fileReads,
                   parserVars, xrayVars>>

\* onChange of the description input
SetDescription ==
    /\ \E d \in DescriptionInputs : form' = [form EXCEPT !.description = d]
    /\ UNCHANGED <<saveTimers, jobRequirements, resumes, invoked, uploader, fileReads,
                   parserVars, xrayVars>>

AfterAddSkill_Untrimmed(f) ==
    IF Trim(f.skill) # ""
    THEN [f EXCEPT !.skills = Append(f.skills, f.skill), !.skill = ""]
    ELSE f

\* addSkill: if (skill.trim()) { setSkills([...skills, skill.trim()]); setSkill('') }
AfterAddSkill(f) ==
    IF Trim(f.skill) # ""
    THEN [f EXCEPT !.skills = Append(f.skills, Trim(f.skill)), !.skill = ""]
    ELSE f

\* the + button
AddSkill ==
    /\ Len(form.skills) < MaxFormSkills
    /\ form' = AfterAddSkill(form)
    /\ UNCHANGED <<saveTimers, jobRequirements, resumes, invoked, uploader, fileReads,
                   parserVars, xrayVars>>

\* the x button of the skill at index (counted from 1 here, from 0 in the code)
RemoveSkill ==
    /\ \E index \in 1..Len(form.skills) :
          form' = [form EXCEPT !.skills = RemoveAt(form.skills, index)]
    /\ UNCHANGED <<saveTimers, jobRequirements, resumes, invoked, uploader, fileReads,
                   parserVars, xrayVars>>

\* the requirement the timer of handleSubmit will deliver: the values of the
\* render in which the form was submitted
SubmittedRequirement(f) ==
    [title |-> f.title, requiredSkills |-> f.skills, description |-> f.description,
     status |-> "complete"]

\* handleSubmit; the browser submits only with the required title and
\* description filled in, and the submit button is disabled while status is
\* 'processing'
HandleSubmit ==
    /\ form.title # ""
    /\ form.description # ""
    /\ form.status # "processing"
    /\ Len(saveTimers) < MaxPending
    /\ form' = [form EXCEPT !.status = "processing"]
    /\ saveTimers' = Append(saveTimers, SubmittedRequirement(form))
    /\ UNCHANGED <<jobRequirements, resumes, invoked, uploader, fileReads,
                   parserVars, xrayVars>>

\* resumes.sort((a, b) => b.score - a.score), run on the list at every render
\* of App: a stable sort by falling score.  With a NaN score the comparator is
\* not consistent and the order is implementation-defined: any order.
SortOutcomes(list) ==
    LET n == Len(list)
        hasNaN == \E i \in 1..n : list[i].score.kind = "NaN"
        sorted(p) ==
            \A i, j \in 1..n :
                i < j => \/ list[p[i]].score.tenths > list[p[j]].score.tenths
                         \/ /\ list[p[i]].score.tenths = list[p[j]].score.tenths
                            /\ p[i] < p[j]
    IN {[k \in 1..n |-> list[p[k]]] :
            p \in {q \in Permutations(1..n) : hasNaN \/ sorted(q)}}

\* the 1000 ms timer of handleSubmit fires: onRequirementsChange (which is
\* setJobRequirements) takes the requirement, then setStatus('complete')
SaveTimerFires ==
    /\ saveTimers # <<>>
    /\ jobRequirements' = Head(saveTimers)
    /\ saveTimers' = Tail(saveTimers)
    /\ form' = [form EXCEPT !.status = "complete"]
    /\ resumes' \in SortOutcomes(resumes)
    /\ UNCHANGED <<invoked, uploader, fileReads, parserVars, xrayVars>>

\* the rest of handleResumeUpload once the three results are there: an error
\* thrown by scoreResume ends the handler before analyzeSuitability is called
\* and before setResumes
UploadOutcome(text, requirement, list, profile, score, suitabilityAnalysis) ==
    IF score.kind = "throw"
    THEN [kind |-> "throw", invoked |-> <<"parseResume", "scoreResume">>,
          resumes |-> list]
    ELSE [kind |-> "set",
          invoked |-> <<"parseResume", "scoreResume", "analyzeSuitability">>,
          resumes |->
              Append(list,
                     [id |-> NumberToString(Len(list) + 1),
                      content |-> text,
                      score |-> score,
                      skills |-> profile.skills,
                      experience |-> profile.experience,
                      education |-> profile.education,
                      jobTitle |-> requirement.title,
                      uploadStatus |-> "complete",
                      suitabilityAnalysis |->
                          [strengths |-> suitabilityAnalysis.strengths,
                           gaps |-> suitabilityAnalysis.gaps,
                           recommendation |-> suitabilityAnalysis.recommendation]])]

\* handleResumeUpload(content) as created in a render with the given
\* jobRequirements and resumes: what it calls, and the list it sets (or that
\* it ends in alert or in an error thrown by the parser).  The id, Date.now()
\* in the code, is the position of the resume in the order of arrival.
HandleResumeUpload(text, requirement, list) ==
    IF requirement = Null
    THEN [kind |-> "alert", invoked |-> <<>>, resumes |-> list]
    ELSE UploadOutcome(text, requirement, list,
                       parseResume(DefaultTechTerms, text),
                       scoreResume(DefaultTechTerms, text, requirement.requiredSkills),
                       analyzeSuitability(DefaultTechTerms, text,
                                          requirement.requiredSkills,
                                          requirement.description))

FileInputEnabled_Always(u) == TRUE

\* disabled={uploadStatus === 'uploading'}
FileInputEnabled(u) == u.uploadStatus # "uploading"

\* handleFileUpload: the change event of the file input.  The onload callback
\* keeps the onUpload of this render, that is the handleResumeUpload that
\* reads the jobRequirements and resumes of this render.
HandleFileUpload ==
    /\ FileInputEnabled(uploader)
    /\ Len(fileReads) < MaxPending
    /\ Len(resumes) < MaxResumes
    /\ \E file \in ResumeFiles \cup {NoFile} :
          IF file = NoFile
          THEN UNCHANGED <<uploader, fileReads>>
          ELSE /\ uploader' = [uploadStatus |-> "uploading", errorMessage |-> ""]
               /\ fileReads' = Append(fileReads,
                                      [file |-> file,
                                       jobRequirements |-> jobRequirements,
                                       resumes |-> resumes])
    /\ UNCHANGED <<form, saveTimers, jobRequirements, resumes, invoked,
                   parserVars, xrayVars>>

OnLoadStatus_AlwaysIdle(u, outcome) == [u EXCEPT !.uploadStatus = "idle"]

\* reader.onload: try { onUpload(text); setUploadStatus('idle') } catch { ... }
OnLoadStatus(u, outcome) ==
    IF outcome.kind = "throw"
    THEN [uploadStatus |-> "error", errorMessage |-> "Failed to process the resume"]
    ELSE [u EXCEPT !.uploadStatus = "idle"]

\* the load event of a read in flight
ReaderOnLoad ==
    /\ \E i \in 1..Len(fileReads) :
          \E outcome \in {HandleResumeUpload(fileReads[i].file.text,
                                             fileReads[i].jobRequirements,
                                             fileReads[i].resumes)} :
             /\ fileReads' = RemoveAt(fileReads, i)
             /\ invoked' = outcome.invoked
             /\ uploader' = OnLoadStatus(uploader, outcome)
             /\ IF outcome.kind = "set"
                THEN resumes' \in SortOutcomes(outcome.resumes)
                ELSE UNCHANGED resumes
    /\ UNCHANGED <<form, saveTimers, jobRequirements, parserVars, xrayVars>>

\* the error event of a read in flight
ReaderOnError ==
    /\ \E i \in 1..Len(fileReads) : fileReads' = RemoveAt(fileReads, i)
    /\ uploader' = [uploadStatus |-> "error", errorMessage |-> "Failed to read the file"]
    /\ UNCHANGED <<form, saveTimers, jobRequirements, resumes, invoked,
                   parserVars, xrayVars>>

\* the form alone, with every input of it
NextForm ==
    \/ SetTitle
    \/ SetSkill
    \/ SetDescription
    \/ AddSkill
    \/ RemoveSkill
    \/ HandleSubmit
    \/ SaveTimerFires

SpecForm == Init /\ [][NextForm]_vars

\* in the runs of the whole app a requirement has no skill or one skill, which
\* gives the three outcomes of scoreResume (NaN, a number, an error)
AddSkillInApp == AddSkill /\ form.skills = <<>>

NextApp ==
    \/ SetTitle
    \/ SetSkill
    \/ SetDescription
    \/ AddSkillInApp
    \/ RemoveSkill
    \/ HandleSubmit
    \/ SaveTimerFires
    \/ HandleFileUpload
    \/ ReaderOnLoad
    \/ ReaderOnError

SpecApp == Init /\ [][NextApp]_vars

\* a read in flight ends: a step of ReaderOnLoad or of ReaderOnError
ReadEnds == \E i \in 1..Len(fileReads) : fileReads' = RemoveAt(fileReads, i)

\* the FileReader fires load or error for every read it was given
SpecAppFair == SpecApp /\ WF_fileReads(ReadEnds)

(***************************************************************************)
(* The X-ray panel (function App of part_001).  Each await and each        *)
(* FileReader or timer callback is a step of its own; what is still to run *)
(* is kept in xrayTasks.                                                   *)
(***************************************************************************)
MaxXrayTasks == 2

\* the files of the file dialog: a grayscale image, a colour image, a text file
XrayFiles ==
    {[kind |-> "file", name |-> "chest.png", type |-> "image/png", grayscale |-> TRUE],
     [kind |-> "file", name |-> "photo.jpg", type |-> "image/jpeg", grayscale |-> FALSE],
     [kind |-> "file", name |-> "notes.txt", type |-> "text/plain", grayscale |-> FALSE]}

\* file.type.startsWith('image/')
IsImageType(file) == Len(file.type) >= 6 /\ SubSeq(file.type, 1, 6) = "image/"

\* validateImage: resolves to whether every pixel has equal red, green, blue
ValidateImage(file) == file.grayscale

Severities == {"mild", "moderate", "severe"}

\* the analysis handleAnalyze builds from its random draws; survivalRate is in
\* tenths of a percent, and the random confidence figures, the texts derived
\* from the type and the floating-point mortalityRate are left out
AnalysisOf(type, severity) ==
    LET survivalRate == IF type = "normal" THEN 999
                        ELSE IF type = "bacterial" THEN 850 ELSE 750
    IN [type             |-> type,
        severity         |-> IF type = "normal" THEN "undefined" ELSE severity,
        riskLevel        |-> IF type = "normal" THEN "low"
                             ELSE IF type = "bacterial" THEN "medium" ELSE "high",
        followUp         |-> IF type = "normal"
                             THEN "Regular annual check-up recommended"
                             ELSE "Schedule follow-up within 48-72 hours",
        survivalRate     |-> survivalRate]

Analyses == {AnalysisOf(type, severity) :
                type \in {"normal", "bacterial", "viral"}, severity \in Severities}

\* the task at position i is taken from the tasks still to run
TaskDone(i) == xrayTasks' = RemoveAt(xrayTasks, i)

\* handleFileSelect up to its await; the file input is rendered only while
\* there is no preview
HandleFileSelect ==
    /\ xray.preview = Null
    /\ Len(xrayTasks) < MaxXrayTasks
    /\ \E file \in XrayFiles \cup {NoFile} :
          IF file = NoFile
          THEN /\ xray' = [xray EXCEPT !.error = Null]
               /\ UNCHANGED xrayTasks
          ELSE IF ~IsImageType(file)
          THEN /\ xray' = [xray EXCEPT !.error = [kind |-> "message",
                                                  text |-> "Please upload an image file"]]
               /\ UNCHANGED xrayTasks
          ELSE /\ xray' = [xray EXCEPT !.error = Null]
               /\ xrayTasks' = Append(xrayTasks, [kind |-> "validate", file |-> file])
    /\ UNCHANGED <<parserVars, appVars>>

\* handleFileSelect after validateImage has resolved
ValidateResolves ==
    /\ \E i \in 1..Len(xrayTasks) :
          /\ xrayTasks[i].kind = "validate"
          /\ IF ValidateImage(xrayTasks[i].file)
             THEN /\ xray' = [xray EXCEPT !.selectedFile = xrayTasks[i].file]
                  /\ xrayTasks' = Append(RemoveAt(xrayTasks, i),
                                         [kind |-> "read", file |-> xrayTasks[i].file])
             ELSE /\ xray' = [xray EXCEPT !.error =
                                 [kind |-> "message",
                                  text |-> "Please upload a valid X-ray image"]]
                  /\ TaskDone(i)
    /\ UNCHANGED <<parserVars, appVars>>

\* reader.onloadend: setPreview(reader.result)
ReaderOnLoadEnd ==
    /\ \E i \in 1..Len(xrayTasks) :
          /\ xrayTasks[i].kind = "read"
          /\ xray' = [xray EXCEPT !.preview = [kind |-> "dataURL",
                                               of |-> xrayTasks[i].file.name]]
          /\ TaskDone(i)
    /\ UNCHANGED <<parserVars, appVars>>

\* preview && !isAnalyzing && !analysis && !error
AnalyzeButtonShown(x) ==
    x.preview # Null /\ ~x.isAnalyzing /\ x.analysis = Null /\ x.error = Null

\* handleAnalyze up to its await of the 2000 ms timer
HandleAnalyze ==
    /\ AnalyzeButtonShown(xray)
    /\ Len(xrayTasks) < MaxXrayTasks
    /\ xray' = [xray EXCEPT !.isAnalyzing = TRUE, !.error = Null]
    /\ xrayTasks' = Append(xrayTasks, [kind |-> "analyze"])
    /\ UNCHANGED <<parserVars, appVars>>

\* handleAnalyze after the timer: setAnalysis(analysis); setIsAnalyzing(false)
AnalyzeTimerFires ==
    /\ \E i \in 1..Len(xrayTasks) :
          /\ xrayTasks[i].kind = "analyze"
          /\ \E analysis \in Analyses :
                xray' = [xray EXCEPT !.analysis = analysis, !.isAnalyzing = FALSE]
          /\ TaskDone(i)
    /\ UNCHANGED <<parserVars, appVars>>

\* the Remove image button, rendered while there is a preview
RemoveImage ==
    /\ xray.preview # Null
    /\ xray' = [xray EXCEPT !.selectedFile = Null, !.preview = Null,
                            !.analysis = Null, !.error = Null]
    /\ UNCHANGED <<xrayTasks, parserVars, appVars>>

NextXray ==
    \/ HandleFileSelect
    \/ ValidateResolves
    \/ ReaderOnLoadEnd
    \/ HandleAnalyze
    \/ AnalyzeTimerFires
    \/ RemoveImage

SpecXray == Init /\ [][NextXray]_vars

(***************************************************************************)
(* Properties                                                              *)
(***************************************************************************)
Returned(o) == pc = "returned" /\ op = o

\* the skills parseResume extracts from the current content
ExtractedSkills == parseResume(DefaultTechTerms, content).skills

\* no required skill is in the extracted skills or a substring of the
\* lower-cased content
NoSkillMatched ==
    \A i \in 1..Len(requiredSkills) :
        /\ ~ArrayIncludes(ExtractedSkills, ToLowerCase(requiredSkills[i]))
        /\ ~Includes(ToLowerCase(content), ToLowerCase(requiredSkills[i]))

\* how often sub occurs in s as a substring
Occurrences(s, sub) == Cardinality({i \in 1..(Len(s) + 1) : OccursAt(s, sub, i)})

\* C1: for every content and every non-empty requiredSkills, scoreResume
\* returns a number between 0 and 10 with at most one decimal digit.
C1_ScoreInRange ==
    (Returned("scoreResume") /\ Len(requiredSkills) >= 1)
        => /\ result.kind = "number"
           /\ result.tenths >= 0
           /\ result.tenths <= 100

\* C2: with an empty requiredSkills list scoreResume signals a
\* ConfigurationError to its caller instead of returning a score value.
C2_EmptySkillsSignalError ==
    (Returned("scoreResume") /\ requiredSkills = <<>>)
        => result = Throw("ConfigurationError")

\* C3: whatever calls were made before on the same instance, parseResume and
\* scoreResume return what they return on a fresh instance for the same
\* arguments, and a call repeated with the same arguments returns the same
\* value again.
C3_Determinism ==
    (Returned("parseResume") \/ Returned("scoreResume"))
        => /\ result = CallResult(DefaultTechTerms, op, content, requiredSkills)
           /\ previous # NoResult => result = previous

\* C3 witness: scoreResume was called twice with the same arguments and
\* returned a positive score.
C3_Witness ==
    /\ Returned("scoreResume")
    /\ previous # NoResult
    /\ result.kind = "number"
    /\ result.tenths > 0
    /\ content # ""

\* C4: for fixed n, r and e the score does not decrease when the number of
\* matched skills grows: every score possible with fewer matched skills is at
\* most the score obtained, every score possible with more is at least it,
\* also where the result is rounded or clamped to 10.
C4_MonotoneInMatched ==
    scoreOut # NoResult
        => \A m1 \in 0..counts.n :
               \A t \in ScoreOutcomes(counts.n, m1, counts.r, counts.e) :
                   /\ m1 < counts.m => t <= scoreOut.tenths
                   /\ m1 > counts.m => t >= scoreOut.tenths

\* C4 witness: all of seven skills matched with every bonus, the sum 10.5 is
\* clamped to 10, and one matched skill less gives 9.5.
C4_Witness ==
    /\ scoreOut = Num(100)
    /\ counts = [n |-> 7, m |-> 7, r |-> 7, e |-> 7]
    /\ RoundedTenths(7, 7, 7, 7) = 105
    /\ FinalScore(7, 6, 7, 7) = 95

\* C5: parseResume on the empty string returns a profile with no skills, no
\* experience and no education.
C5_EmptyStringProfile ==
    (Returned("parseResume") /\ content = "")
        => result = [kind |-> "profile", skills |-> <<>>, experience |-> <<>>,
                     education |-> <<>>]

\* C5 witness: parseResume was called on the empty string and returned.
C5_Witness ==
    /\ Returned("parseResume")
    /\ content = ""
    /\ result.kind = "profile"

\* C6: analyzeSuitability never raises: for every content and every
\* requiredSkills list it returns a verdict.
C6_AnalyzeNeverRaises ==
    Returned("analyzeSuitability") => result.kind = "verdict"

\* C7: when no required skill of a non-empty list is matched, the score is
\* 0.0, the gaps hold one line listing all required skills in order and the
\* strengths hold no skill-match line.
C7_ZeroMatch ==
    (pc = "returned" /\ Len(requiredSkills) >= 1 /\ NoSkillMatched)
        => /\ op = "scoreResume" => result = Num(0)
           /\ op = "analyzeSuitability"
                => /\ result.kind = "verdict"
                   /\ ArrayIncludes(result.gaps,
                          "Missing required skills: " \o Join(requiredSkills, ", "))
                   /\ \A i \in 1..Len(result.strengths) :
                          ~OccursAt(result.strengths[i], "Strong match in key skills", 1)

\* C8: for the scenario content and the skills javascript, react, docker the
\* score is 5.2 and the verdict has the two strengths (skill line, 5 years),
\* the two gaps (docker missing, no education) and "Consider for interview".
C8_Scenario ==
    (pc = "returned" /\ content = ScenarioContent /\ requiredSkills = ScenarioSkills)
        => /\ op = "scoreResume" => result = Num(52)
           /\ op = "analyzeSuitability"
                => result =
                     [kind           |-> "verdict",
                      strengths      |-> <<"Strong match in key skills: javascript, react",
                                           "Strong industry experience with 5 years">>,
                      gaps           |-> <<"Missing required skills: docker",
                                           "No formal education details found">>,
                      recommendation |-> ConsiderForInterview]

\* C8 witness: analyzeSuitability returned a verdict for the scenario.
C8_Witness ==
    /\ Returned("analyzeSuitability")
    /\ content = ScenarioContent
    /\ requiredSkills = ScenarioSkills
    /\ result.kind = "verdict"

\* C9: for a non-empty list of n skills the score is
\* min(round((7*m/n + 0.2*r + 0.3*e) * 10) / 10, 10), with m the skills
\* extracted or occurring in the lower-cased content, r the skills occurring
\* more than once in it and e the skills s with "experience in s" in it.
C9_ScoreFormula ==
    (Returned("scoreResume") /\ Len(requiredSkills) >= 1)
        => LET text == ToLowerCase(content)
               n == Len(requiredSkills)
               idx == 1..n
               sk(i) == ToLowerCase(requiredSkills[i])
               m == Cardinality({i \in idx : \/ ArrayIncludes(ExtractedSkills, sk(i))
                                            \/ Includes(text, sk(i))})
               r == Cardinality({i \in idx : Occurrences(text, sk(i)) > 1})
               e == Cardinality({i \in idx : Includes(text, "experience in " \o sk(i))})
               tenthsTimesTwoN == 2 * (70 * m + (2 * r + 3 * e) * n)
               rounded == (tenthsTimesTwoN + n) \div (2 * n)
           IN result = Num(IF rounded > 100 THEN 100 ELSE rounded)

\* C10: the recommendation of analyzeSuitability follows the score that
\* scoreResume returns for the same arguments (>= 7, 5 to 7, below 5), and one
\* of the three messages is always returned.
C10_RecommendationByScore ==
    Returned("analyzeSuitability")
        => LET s == scoreResume(DefaultTechTerms, content, requiredSkills)
           IN /\ result.kind = "verdict"
              /\ result.recommendation
                    \in {HighlyRecommended, ConsiderForInterview, NotRecommended}
              /\ s.kind = "number"
                    => /\ s.tenths >= 70 => result.recommendation = HighlyRecommended
                       /\ (s.tenths >= 50 /\ s.tenths < 70)
                             => result.recommendation = ConsiderForInterview
                       /\ s.tenths < 50 => result.recommendation = NotRecommended

\* a list without its repeats: an entry is dropped when an earlier one is the
\* same up to letter case
WithoutRepeats(list) ==
    LET keep == {i \in 1..Len(list) :
                    \A j \in 1..(i - 1) : ToLowerCase(list[j]) # ToLowerCase(list[i])}
        order == SortedSeq(keep)
    IN [k \in 1..Len(order) |-> list[order[k]]]

\* C11: repeated entries of requiredSkills (also repeats that differ in letter
\* case only) count once: scoreResume returns for the list what it returns for
\* the list without its repeats, and analyzeSuitability ends the same way and
\* with the same recommendation for both.
C11_DuplicatesAsSet ==
    (pc = "returned" /\ op \in {"scoreResume", "analyzeSuitability"})
        => LET once == WithoutRepeats(requiredSkills)
               other == CallResult(DefaultTechTerms, op, content, once)
           IN /\ op = "scoreResume" => result = other
              /\ op = "analyzeSuitability"
                    => /\ result.kind = other.kind
                       /\ result.kind = "verdict"
                             => result.recommendation = other.recommendation

\* strings that differ in the case of letters only
SameUpToCase(a, b) ==
    /\ Len(a) = Len(b)
    /\ \A i \in 1..Len(a) :
          \/ Ch(a, i) = Ch(b, i)
          \/ \E k \in 1..Len(UpperLetters) :
                {Ch(a, i), Ch(b, i)} = {Ch(UpperLetters, k), Ch(LowerLetters, k)}

SameListUpToCase(s, t) ==
    /\ Len(s) = Len(t)
    /\ \A i \in 1..Len(s) : SameUpToCase(s[i], t[i])

\* C12: matching ignores letter case: inputs that differ from the ones of a
\* call in the case of letters only (in the content, in the required skills,
\* or both) give the same score, and analyzeSuitability puts the same skills,
\* in the same order, on the strength line and on the gap line.
C12_CaseInsensitive ==
    (pc = "returned" /\ op \in {"scoreResume", "analyzeSuitability"}
                     /\ Len(requiredSkills) >= 1)
        => \A c2 \in {c \in Contents : SameUpToCase(content, c)} :
             \A s2 \in {s \in SkillLists : SameListUpToCase(requiredSkills, s)} :
                LET other == CallResult(DefaultTechTerms, op, c2, s2)
                IN /\ op = "scoreResume" => result = other
                   /\ op = "analyzeSuitability"
                         => /\ result.kind = other.kind
                            /\ result.kind = "verdict"
                                  => /\ SameListUpToCase(result.strengths, other.strengths)
                                     /\ SameListUpToCase(result.gaps, other.gaps)

\* C12 witness: the content names the skill in upper case and in lower case,
\* the list names it in upper case, and the skill is matched and repeated.
C12_Witness ==
    /\ Returned("scoreResume")
    /\ content = "JAVA java"
    /\ requiredSkills = <<"JAVA">>
    /\ result = Num(72)
    /\ scoreResume(DefaultTechTerms, "java java", <<"java">>) = Num(72)

\* C13: no step changes the technology-term dictionary, whatever the sequence
\* of calls and resumes, and a call made with the caller's requiredSkills list
\* leaves that list as it was.
C13_NothingMutated ==
    [][/\ commonTechTerms' = commonTechTerms
       /\ (pc = "returned" /\ pc' = "returned") => requiredSkills' = requiredSkills]_vars

\* C13 witness: analyzeSuitability was called twice with the caller's list of
\* three skills, and the dictionary and the list are what they were.
C13_Witness ==
    /\ Returned("analyzeSuitability")
    /\ previous # NoResult
    /\ requiredSkills = ScenarioSkills
    /\ content = ScenarioContent
    /\ commonTechTerms = DefaultTechTerms

\* the profile parseResume extracts from the current content
ExtractedProfile == parseResume(DefaultTechTerms, content)

\* the lines of a list that start with a given text
LinesStarting(lines, prefix) == SelectSeq(lines, LAMBDA l : OccursAt(l, prefix, 1))

\* the entries of a list at the given indices, in the list's order
EntriesAt(list, indices) ==
    LET order == SortedSeq(indices) IN [k \in 1..Len(order) |-> list[order[k]]]

\* C14: for the empty content, with any requiredSkills list, empty or not,
\* analyzeSuitability returns a verdict with no strengths, with the gaps
\* "Missing required skills" (when the list is not empty), "Limited
\* professional experience" and "No formal education details found", and with
\* the "Not recommended" recommendation.
C14_DegenerateInput ==
    (Returned("analyzeSuitability") /\ content = "")
        => /\ result.kind = "verdict"
           /\ result.strengths = <<>>
           /\ result.gaps =
                (IF requiredSkills = <<>> THEN <<>>
                 ELSE <<"Missing required skills: " \o Join(requiredSkills, ", ")>>)
                \o <<"Limited professional experience",
                     "No formal education details found">>
           /\ result.recommendation = NotRecommended

\* C15: analyzeSuitability names every required skill on exactly one of two
\* lines: the strength line "Strong match in key skills" lists, in the order of
\* requiredSkills, the skills whose lower-cased form is among the extracted
\* skills, the gap line "Missing required skills" lists the others in that
\* order, and a line is present exactly when it lists a skill.
C15_SkillPartition ==
    Returned("analyzeSuitability")
        => LET matched == {i \in 1..Len(requiredSkills) :
                              ArrayIncludes(ExtractedSkills, ToLowerCase(requiredSkills[i]))}
               missing == (1..Len(requiredSkills)) \ matched
               matchLine == "Strong match in key skills: "
               missLine == "Missing required skills: "
           IN /\ result.kind = "verdict"
              /\ LinesStarting(result.strengths, matchLine) =
                    (IF matched = {} THEN <<>>
                     ELSE <<matchLine \o Join(EntriesAt(requiredSkills, matched), ", ")>>)
              /\ LinesStarting(result.gaps, missLine) =
                    (IF missing = {} THEN <<>>
                     ELSE <<missLine \o Join(EntriesAt(requiredSkills, missing), ", ")>>)
              /\ LinesStarting(result.gaps, matchLine) = <<>>
              /\ LinesStarting(result.strengths, missLine) = <<>>

\* the first run of digits of a mention as a number, 0 when it has no digit
FirstInteger(mention) ==
    LET digitAt == {i \in 1..Len(mention) : IsDigit(Ch(mention, i))}
        runs == Runs(mention, {Ch(mention, i) : i \in (1..Len(mention)) \ digitAt})
    IN IF runs = <<>> THEN 0 ELSE ParseInt(runs[1])

\* the greatest first integer of the experience mentions, 0 without mentions
MentionedYears ==
    LET mentions == ExtractedProfile.experience
        values == {FirstInteger(mentions[i]) : i \in 1..Len(mentions)} \cup {0}
    IN CHOOSE y \in values : \A v \in values : v <= y

\* the lines of a verdict about experience
ExperienceLines(verdict) ==
    LinesStarting(verdict.strengths, "Strong industry experience with ")
        \o LinesStarting(verdict.strengths, "Relevant experience with ")
        \o LinesStarting(verdict.gaps, "Limited professional experience")

\* C16: with y the greatest first integer of the experience mentions (0 when
\* there is none), analyzeSuitability adds exactly one line about experience:
\* the strength "Strong industry experience with y years" when y >= 5, the
\* strength "Relevant experience with y years in the field" when 2 <= y <= 4,
\* the gap "Limited professional experience" otherwise.
C16_ExperienceTier ==
    Returned("analyzeSuitability")
        => LET y == MentionedYears
           IN /\ result.kind = "verdict"
              /\ Len(ExperienceLines(result)) = 1
              /\ y >= 5 => ArrayIncludes(result.strengths,
                               "Strong industry experience with " \o NumberToString(y) \o " years")
              /\ (y >= 2 /\ y <= 4)
                    => ArrayIncludes(result.strengths,
                           "Relevant experience with " \o NumberToString(y) \o " years in the field")
              /\ y < 2 => ArrayIncludes(result.gaps, "Limited professional experience")

\* some education mention contains the word
SomeMentionHas(word) ==
    \E i \in 1..Len(ExtractedProfile.education) :
        Includes(ExtractedProfile.education[i], word)

\* the lines of a verdict about education
EducationLines(verdict) ==
    LinesStarting(verdict.strengths, "Advanced academic qualifications")
        \o LinesStarting(verdict.strengths, "Relevant academic background")
        \o LinesStarting(verdict.gaps, "No formal education details found")

\* C17: without education mentions analyzeSuitability adds only the gap "No
\* formal education details found"; with a mention that contains "master" or
\* "phd" only the strength "Advanced academic qualifications" (also when
\* another mention contains "bachelor"); else with a mention that contains
\* "bachelor" only the strength "Relevant academic background"; else no line
\* about education.
C17_EducationTier ==
    Returned("analyzeSuitability")
        => /\ result.kind = "verdict"
           /\ EducationLines(result) =
                (IF ExtractedProfile.education = <<>>
                 THEN <<"No formal education details found">>
                 ELSE IF SomeMentionHas("master") \/ SomeMentionHas("phd")
                 THEN <<"Advanced academic qualifications">>
                 ELSE IF SomeMentionHas("bachelor")
                 THEN <<"Relevant academic background">>
                 ELSE <<>>)

LetterAndDigitChars ==
    {Ch(UpperLetters, i) : i \in 1..Len(UpperLetters)}
        \cup {Ch(LowerLetters, i) : i \in 1..Len(LowerLetters)}
        \cup DigitChars

\* the words of a text: its maximal runs of letters and digits, in order
WordsOf(text) ==
    Runs(text, {Ch(text, i) : i \in 1..Len(text)} \ LetterAndDigitChars)

HasWord(text, word) == \E i \in 1..Len(WordsOf(text)) : WordsOf(text)[i] = word

\* the sentences of the current content as parseResume reads it, in lower case
ContentSentences == Sentences(ToLowerCase(content))

\* C18 as claimed: the experience list of parseResume is, in document order,
\* exactly the sentences of the content that contain a numeric value token and
\* the word "experience"; nothing else is required of a sentence.
C18_ExperienceByValueAndWord ==
    Returned("parseResume")
        => result.experience =
              SelectSeq(ContentSentences,
                        LAMBDA s : /\ \E i \in 1..Len(WordsOf(s)) : IsValue(WordsOf(s)[i])
                                   /\ HasWord(s, "experience"))

\* C18 as amended: the experience list of parseResume is, in document order,
\* exactly the sentences of the content in which a numeric value token is
\* directly followed by the word "years" and which contain the word
\* "experience".
C18_ExperienceByValueYears ==
    Returned("parseResume")
        => result.experience =
              SelectSeq(ContentSentences,
                        LAMBDA s : /\ \E i \in 1..(Len(WordsOf(s)) - 1) :
                                          /\ IsValue(WordsOf(s)[i])
                                          /\ WordsOf(s)[i + 1] = "years"
                                   /\ HasWord(s, "experience"))

\* C18 witness: of two sentences with a number and the word "experience",
\* only the one with "5 years" is in the experience list.
C18_Witness ==
    /\ Returned("parseResume")
    /\ content = "experience with 12 projects. 5 years experience in Java."
    /\ result.experience = <<"5 years experience in java.">>

\* C19: the education list of parseResume is, in document order, exactly the
\* sentences of the content that contain one of the words degree, bachelor,
\* master, phd, diploma in any letter case, whether or not the sentence is
\* also in the experience list.
C19_EducationByWord ==
    Returned("parseResume")
        => result.education =
              SelectSeq(ContentSentences,
                        LAMBDA s : \E w \in {"degree", "bachelor", "master", "phd", "diploma"} :
                                       HasWord(s, w))

\* C19 witness: two education sentences are listed in document order, and the
\* second one is in the experience list too.
C19_Witness ==
    /\ Returned("parseResume")
    /\ content = "Bachelor of science. Master degree, 7 years experience."
    /\ result.education = <<"bachelor of science.", "master degree, 7 years experience.">>
    /\ result.experience = <<"master degree, 7 years experience.">>

\* term occurs in text, in any letter case, as a whole token: between
\* separators (white space, comma, period) or the ends of the text
OccursAsToken(text, term) ==
    \E i \in 1..Len(text) :
        /\ i + Len(term) - 1 <= Len(text)
        /\ SameUpToCase(SubSeq(text, i, i + Len(term) - 1), term)
        /\ (i = 1 \/ Ch(text, i - 1) \in SplitSeparators)
        /\ (i + Len(term) - 1 = Len(text) \/ Ch(text, i + Len(term)) \in SplitSeparators)

\* C20: the skills list of parseResume has no entry twice, no entry has an
\* upper-case letter, and every dictionary term that occurs in the content as
\* a whole token, in any letter case, is in the list.
C20_SkillsList ==
    Returned("parseResume")
        => /\ \A i, j \in 1..Len(result.skills) :
                 result.skills[i] = result.skills[j] => i = j
           /\ \A i \in 1..Len(result.skills) :
                 \A k \in 1..Len(result.skills[i]) :
                     CharIndex(UpperLetters, Ch(result.skills[i], k)) = 0
           /\ \A term \in DefaultTechTerms :
                 OccursAsToken(content, term) => ArrayIncludes(result.skills, term)

\* C20 witness: the content names java twice, once capitalised before a
\* period, and the skills list holds it once.
C20_Witness ==
    /\ Returned("parseResume")
    /\ content = "5 years experience in Java. Diploma in java."
    /\ result.skills = <<"java">>

\* C21: scoreResume returns a score, and a required skill adds the 0.2 of the
\* repetition bonus exactly when its lower-cased text occurs more than once
\* as a substring of the lower-cased content, whatever characters the skill
\* has ('.', '+', ...).
C21_RepetitionBonusLiteral ==
    (Returned("scoreResume") /\ Len(requiredSkills) >= 1)
        => /\ result.kind = "number"
           /\ \A i \in 1..Len(requiredSkills) :
                 HasRepetition(ToLowerCase(content), requiredSkills[i])
                    <=> Occurrences(ToLowerCase(content), ToLowerCase(requiredSkills[i])) > 1

\* the indices of the required skills scoreResume counts in the match ratio
CountedSkills ==
    LET counted == MatchedForScore(ExtractedSkills, ToLowerCase(content), requiredSkills)
    IN {i \in 1..Len(requiredSkills) : ArrayIncludes(counted, requiredSkills[i])}

\* the verdict names exactly the skills at the indices in named on its
\* strength line and the others on its gap line
VerdictNames(verdict, named) ==
    LET others == (1..Len(requiredSkills)) \ named
    IN /\ LinesStarting(verdict.strengths, "Strong match in key skills: ") =
            (IF named = {} THEN <<>>
             ELSE <<"Strong match in key skills: "
                        \o Join(EntriesAt(requiredSkills, named), ", ")>>)
       /\ LinesStarting(verdict.gaps, "Missing required skills: ") =
            (IF others = {} THEN <<>>
             ELSE <<"Missing required skills: "
                        \o Join(EntriesAt(requiredSkills, others), ", ")>>)

\* C22 as claimed: in a verdict of analyzeSuitability every required skill
\* that scoreResume counts as matched is named on the strength line and not on
\* the missing-skills line.
C22_CountedIsNamedMatched ==
    (Returned("analyzeSuitability") /\ Len(requiredSkills) >= 1
                                    /\ result.kind = "verdict")
        => \E named \in SUBSET (1..Len(requiredSkills)) :
              /\ CountedSkills \subseteq named
              /\ VerdictNames(result, named)

\* C22 as amended: the strength line names the required skills that are among
\* the extracted skills and the missing-skills line names the others; every
\* skill named on the strength line is counted as matched by scoreResume, and
\* a skill counted only because its text occurs in the content is named on
\* the missing-skills line.
C22_NamedMatchedIsCounted ==
    (Returned("analyzeSuitability") /\ Len(requiredSkills) >= 1
                                    /\ result.kind = "verdict")
        => LET named == {i \in 1..Len(requiredSkills) :
                            ArrayIncludes(ExtractedSkills, ToLowerCase(requiredSkills[i]))}
           IN /\ VerdictNames(result, named)
              /\ named \subseteq CountedSkills

\* C22 witness: "java" occurs in "javaScript" and is counted in the score, is
\* not among the extracted skills, and is reported as missing.
C22_Witness ==
    /\ Returned("analyzeSuitability")
    /\ content = "javaScript"
    /\ requiredSkills = <<"java">>
    /\ CountedSkills = {1}
    /\ result.kind = "verdict"
    /\ result.gaps[1] = "Missing required skills: java"
    /\ scoreResume(DefaultTechTerms, content, requiredSkills) = Num(70)


(***************************************************************************)
(* The resume app                                                          *)
(***************************************************************************)
\* the step is the load event of the read at position i
LoadOf(i) == ReaderOnLoad /\ i \in 1..Len(fileReads) /\ fileReads' = RemoveAt(fileReads, i)

\* the list after is the list before with one more entry, in some order
OneAppended(before, after) ==
    /\ Len(after) = Len(before) + 1
    /\ \E k \in 1..Len(after) : RemoveAt(after, k) \in SortOutcomes(before)
                                \/ \E p \in Permutations(1..Len(before)) :
                                      RemoveAt(after, k) = [j \in 1..Len(before) |-> before[p[j]]]

\* C23: an upload delivered while no job requirement is saved adds no resume,
\* calls none of parseResume, scoreResume, analyzeSuitability and leaves the
\* list as it is; an upload delivered when a job requirement is set appends
\* exactly one resume and keeps the earlier entries.
C23_UploadAppendsOne ==
    [][\A i \in 1..Len(fileReads) :
          LoadOf(i) =>
              IF jobRequirements = Null
              THEN resumes' = resumes /\ invoked' = <<>>
              ELSE OneAppended(resumes, resumes')]_vars

\* C24: after any saves and uploads every resume of the list has a score that
\* is a number from 0 to 10, never NaN (no resume is scored against a saved
\* requirement with an empty requiredSkills list).
C24_ScoresAreNumbers ==
    \A i \in 1..Len(resumes) :
        /\ resumes[i].score.kind = "number"
        /\ resumes[i].score.tenths >= 0
        /\ resumes[i].score.tenths <= 100

\* C25: a resume whose content is delivered after a job-requirement save has
\* completed is processed against the requirement saved last, not against the
\* requirement (or the unset requirement) of the time the file was selected.
C25_ScoredAgainstLatest ==
    [][\A i \in 1..Len(fileReads) :
          (LoadOf(i) /\ jobRequirements # Null) =>
              LET latest == HandleResumeUpload(fileReads[i].file.text, jobRequirements, resumes)
              IN /\ invoked' = latest.invoked
                 /\ IF latest.kind = "set"
                    THEN resumes' \in SortOutcomes(latest.resumes)
                    ELSE resumes' = resumes]_vars

\* the onUpload of the read at position i raises
Raises(i) ==
    /\ fileReads[i].jobRequirements # Null
    /\ scoreResume(DefaultTechTerms, fileReads[i].file.text,
                   fileReads[i].jobRequirements.requiredSkills).kind = "throw"

\* C26: when onUpload raises, the upload status ends as 'error' with 'Failed to
\* process the resume' (not 'idle'); when the read fails it ends as 'error'
\* with 'Failed to read the file'; in both cases no resume is added.
C26_UploadErrors ==
    [][/\ \A i \in 1..Len(fileReads) :
             (LoadOf(i) /\ Raises(i)) =>
                 /\ uploader'.uploadStatus = "error"
                 /\ uploader'.errorMessage = "Failed to process the resume"
                 /\ resumes' = resumes
       /\ ReaderOnError =>
             /\ uploader'.uploadStatus = "error"
             /\ uploader'.errorMessage = "Failed to read the file"
             /\ resumes' = resumes]_vars

C26_Witness ==
    /\ uploader = [uploadStatus |-> "error", errorMessage |-> "Failed to process the resume"]
    /\ invoked = <<"parseResume", "scoreResume">>
    /\ jobRequirements # Null
    /\ jobRequirements.requiredSkills = <<"c++">>
    /\ fileReads = <<>>
    /\ resumes = <<>>

\* C27: a file selection that sets 'uploading' is followed by 'idle' or 'error';
\* while the status is 'uploading' no further read starts, and at most one
\* read is in flight.
C27_UploadEnds ==
    /\ (uploader.uploadStatus = "uploading") ~> (uploader.uploadStatus \in {"idle", "error"})
    /\ [][uploader.uploadStatus = "uploading" => Len(fileReads') <= Len(fileReads)]_vars
    /\ [](Len(fileReads) <= 1)
    /\ [](uploader.uploadStatus = "uploading" => ~FileInputEnabled(uploader))

C27_Witness ==
    /\ uploader.uploadStatus = "uploading"
    /\ Len(fileReads) = 1
    /\ resumes # <<>>

\* the entry is a skill as addSkill stores it: not empty, nothing to trim
IsTrimmedSkill(entry) ==
    /\ entry # ""
    /\ ~IsSpace(Ch(entry, 1))
    /\ ~IsSpace(Ch(entry, Len(entry)))

\* C28: the skills list of the form holds only trimmed, non-empty entries, so
\* no delivered requiredSkills has an empty skill; removeSkill(i) removes the
\* entry at index i and keeps the others in their order.
C28_FormSkills ==
    /\ [](/\ \A k \in 1..Len(form.skills) : IsTrimmedSkill(form.skills[k])
          /\ jobRequirements # Null =>
                \A k \in 1..Len(jobRequirements.requiredSkills) :
                    IsTrimmedSkill(jobRequirements.requiredSkills[k]))
    /\ [][RemoveSkill =>
             /\ Len(form'.skills) = Len(form.skills) - 1
             /\ \E index \in 1..Len(form.skills) :
                   /\ \A k \in 1..(index - 1) : form'.skills[k] = form.skills[k]
                   /\ \A k \in index..(Len(form.skills) - 1) :
                         form'.skills[k] = form.skills[k + 1]]_vars

C28_Witness ==
    /\ jobRequirements # Null
    /\ jobRequirements.requiredSkills = <<"java", "c++">>
    /\ form.skills = <<"c++">>
    /\ form.skill = " "

(***************************************************************************)
(* The X-ray panel                                                         *)
(***************************************************************************)
\* an analysis has started and its result is not stored yet
AnalysisRunning == \E i \in 1..Len(xrayTasks) : xrayTasks[i].kind = "analyze"

\* C29: under every interleaving of the 2-second delay of Analyze with Remove
\* image, an analysis is present only while an image is selected (preview not
\* null), and isAnalyzing is true only between the start of an analysis and
\* the storing of its result.
C29_AnalysisOnlyWithImage ==
    /\ xray.analysis # Null => xray.preview # Null
    /\ xray.isAnalyzing => AnalysisRunning

====
